---- MODULE Spec2Model ----
(***************************************************************************)
(* quickcritic: the analyze-product edge function (two variants of the    *)
(* same Deno.serve handler) over the product_inspections table.           *)
(*                                                                         *)
(* Two handler invocations (request slots) run interleaved at their await  *)
(* points against one store; a slot whose invocation has ended takes the   *)
(* next request.  Numbers are fixed point: the integer n stands for        *)
(* n / Scale.  Time is in milliseconds and advances by TickMs.             *)
(*                                                                         *)
(* An action is the return of the call the handler awaits, the code that   *)
(* follows it, and the issue of the next call (pc names the pending call,  *)
(* calls lists the calls issued).  A fetch either throws or delivers a     *)
(* whole response; the supabase client never throws: it returns            *)
(* { data, error }.  log holds the console.error calls.                    *)
(*                                                                         *)
(* Spec      one invocation at a time, every outcome of every call         *)
(* SpecRace  two invocations interleaved, over two urls, successful calls  *)
(* SpecScore the score normalization on its own                            *)
(***************************************************************************)
EXTENDS Integers, Sequences, FiniteSets, TLC

VARIABLES variant, firecrawlKey, store, now, req, calc

vars == <<variant, firecrawlKey, store, now, req, calc>>

\* ---------------------------------------------------------------- bounds
MaxTicks == 3
Scale == 10
MaxBelowZero == 30
MaxScoreIn == 150
MaxSentimentIn == 5
MaxItems == 7
MaxAnalyses == 3

TickMs == 12 * 60 * 60 * 1000
DayMs == 24 * 60 * 60 * 1000

Reqs == {"r1", "r2"}

\* ------------------------------------------------------------- JS values
Undefined == [t |-> "undefined"]
Null == [t |-> "null"]
NaN == [t |-> "NaN"]
NotArray == [t |-> "object"]
Num(n) == [t |-> "number", v |-> n]
Str(s) == [t |-> "string", s |-> s]
Arr(a) == [t |-> "array", a |-> a]

IsNum(x) == x.t = "number"

\* a string handed over as url: its text and what the WHATWG URL parser
\* makes of it (scheme "" when the text is not an absolute URL)
UrlString(text, scheme, host) ==
    [t |-> "string", s |-> text, scheme |-> scheme, host |-> host]
EmptyString == UrlString("", "", "")
WidgetUrl == UrlString("https://example.com/widget", "https", "example.com")
ItemUrl == UrlString("https://shop.test/item", "https", "shop.test")
RelativeRef == UrlString("widget", "", "")
Urls == {WidgetUrl, ItemUrl}

\* !url
Falsy(x) ==
    \/ x.t \in {"undefined", "null", "NaN"}
    \/ x.t = "number" /\ x.v = 0
    \/ x.t = "string" /\ x.s = ""

\* new URL(url): throws unless the string is an absolute URL
URLThrows(s) == s.scheme = ""
Hostname(s) == s.host

\* --------------------------------------------------------------- Math.*
\* ToNumber: null is 0; undefined, objects and non-numeric strings are NaN
ToNumber(x) == IF IsNum(x) THEN x ELSE IF x.t = "null" THEN Num(0) ELSE NaN

\* Math.round: floor(x + 0.5) of ToNumber(x)
MathRound(x) ==
    IF IsNum(ToNumber(x))
    THEN Num(((2 * ToNumber(x).v + Scale) \div (2 * Scale)) * Scale)
    ELSE NaN

\* Math.max / Math.min: NaN if either argument converts to NaN
MathMax(a, b) ==
    IF IsNum(ToNumber(a)) /\ IsNum(ToNumber(b))
    THEN (IF ToNumber(a).v >= ToNumber(b).v THEN ToNumber(a) ELSE ToNumber(b))
    ELSE NaN

MathMin(a, b) ==
    IF IsNum(ToNumber(a)) /\ IsNum(ToNumber(b))
    THEN (IF ToNumber(a).v <= ToNumber(b).v THEN ToNumber(a) ELSE ToNumber(b))
    ELSE NaN

NormalizeScore_noUpperClamp(x) == MathMax(Num(0), MathRound(x))

\* ai_score: Math.min(100, Math.max(0, Math.round(aiAnalysis.score)))
NormalizeScore(x) == MathMin(Num(100 * Scale), MathMax(Num(0), MathRound(x)))

ClampSentiment_rounded(x) == MathMin(Num(Scale), MathMax(Num(0 - Scale), MathRound(x)))

\* sentiment_score: Math.min(1, Math.max(-1, aiAnalysis.sentiment_score))
ClampSentiment(x) == MathMin(Num(Scale), MathMax(Num(0 - Scale), x))

SliceOrEmpty_noCap(x, k) == IF x.t = "array" THEN x.a ELSE <<>>

\* Array.isArray(a) ? a.slice(0, k) : []
SliceOrEmpty(x, k) ==
    IF x.t = "array" THEN SubSeq(x.a, 1, IF Len(x.a) < k THEN Len(x.a) ELSE k)
    ELSE <<>>

ProsCap == IF variant = "richer" THEN 6 ELSE 3
ConsCap == IF variant = "richer" THEN 2 ELSE 3

\* ------------------------------------------------------------ Date
\* Date.prototype.toISOString: the calendar fields of a millisecond count
ToISOString(ms) ==
    [day |-> ms \div DayMs,
     hh |-> (ms % DayMs) \div 3600000,
     mm |-> (ms % 3600000) \div 60000,
     ss |-> (ms % 60000) \div 1000,
     ms |-> ms % 1000]

\* new Date(isoString).getTime()
DateParse(iso) ==
    (((iso.day * 24 + iso.hh) * 60 + iso.mm) * 60 + iso.ss) * 1000 + iso.ms

\* 24 * 60 * 60 * 1000
CacheTtlMs == 24 * 60 * 60 * 1000

\* ------------------------------------------------- the outside world
\* origin page: the tags the extraction patterns look for (Null: no match)
Html(titleTag, ogTitle, ogImage, img, ogDesc, metaDesc) ==
    [titleTag |-> titleTag, ogTitle |-> ogTitle, ogImage |-> ogImage,
     img |-> img, ogDesc |-> ogDesc, metaDesc |-> metaDesc]
\* the text of a tag or attribute as written in the page, cut into pieces:
\* each piece is one double quote or a run of other characters
Raw(pieces) == [t |-> "raw", pieces |-> pieces]
Quote == "\""
HtmlWidget ==
    Html(Raw(<<"Widget">>), Null, Raw(<<"w.png">>), Null, Null, Raw(<<"A widget">>))
HtmlBare == Html(Null, Null, Null, Null, Null, Null)
Htmls == {HtmlWidget, HtmlBare}

\* statuses the origin page answers with
PageStatuses == {200, 403, 404, 429, 500, 529}
\* statuses the model gateway answers with
AiStatuses == {200, 402, 429, 500, 503}

\* fcData.data.metadata of the scraping API
FcMetadatas == {[title |-> Str("Widget (scraped)"), ogImage |-> Str("w.png"),
                 description |-> Undefined],
                [title |-> Undefined, ogImage |-> Undefined, description |-> Undefined]}

\* JSON values the model's message content can hold
Analysis(score, sentiment, review, pros, cons, category) ==
    [t |-> "object", score |-> score, sentiment_score |-> sentiment,
     short_review |-> review, pros |-> pros, cons |-> cons,
     category |-> category,
     category_scores |-> IF category = Undefined THEN Undefined ELSE Arr(<<"cs">>),
     stores |-> Undefined,
     reviews_summary |-> IF category = Undefined THEN Undefined ELSE Str("summary"),
     sources_count |-> IF category = Undefined THEN Undefined ELSE Num(3 * Scale)]

ObjWidget ==
    Analysis(Num(92 * Scale), Num((8 * Scale) \div 10), Str("Solid widget."),
             Arr(<<"p1", "p2", "p3", "p4", "p5", "p6", "p7">>),
             Arr(<<"c1", "c2", "c3", "c4">>), Str("Gadgets"))
ObjOutOfRange ==
    Analysis(Num(150 * Scale), Num(2 * Scale), Str("Too good."),
             Arr(<<"p1">>), NotArray, Undefined)
ObjNoScore ==
    Analysis(Undefined, Undefined, Undefined, Undefined, Undefined, Undefined)

\* aiData.choices[0].message.content: absent, or a string that is
\* optionally wrapped in a ```json fence around a text
Content(fenced, text) == [t |-> "string", fenced |-> fenced, text |-> text]
ContentAbsent == Undefined
Prose == [t |-> "prose"]
AiContents ==
    {ContentAbsent, Content(FALSE, Prose), Content(TRUE, ObjWidget),
     Content(FALSE, ObjOutOfRange), Content(FALSE, ObjNoScore), Content(FALSE, Null)}

\* body of a gateway 200 answer: not JSON at all, or JSON with a content
AiPayloads == {[json |-> FALSE]} \cup {[json |-> TRUE, content |-> c] : c \in AiContents}

\* request bodies: unreadable, JSON null, or a JSON value whose url is ...
Body(kind, url) == [kind |-> kind, url |-> url]
Bodies ==
    {Body("unreadable", Undefined), Body("null", Undefined)}
    \cup {Body("json", u) : u \in {Undefined, Null, Num(5), EmptyString, RelativeRef}}
    \cup {Body("json", WidgetUrl)}

\* ------------------------------------------------- parsing the content
\* content.replace(/```json\n?|\n?```/g, '').trim(); JSON.parse(...) throws?
CleanContent(content) == content.text

ParseThrows(content) ==
    \/ content.t # "string"                 \* content.replace is not a function
    \/ CleanContent(content) = Prose        \* SyntaxError

RicherFallback ==
    [t |-> "object", score |-> Num(75 * Scale), sentiment_score |-> Num(Scale \div 2),
     short_review |-> Str("Product analysis completed."),
     pros |-> Arr(<<"Available", "Listed", "Accessible", "Online", "Verified", "Reputable">>),
     cons |-> Arr(<<"Limited data", "Manual review recommended">>),
     category |-> Str("General"),
     category_scores |-> Arr(<<"Quality", "Value", "Features", "Reliability">>),
     stores |-> Arr(<<>>),
     reviews_summary |-> Str("Limited review data available."),
     sources_count |-> Num(0)]

SimplerFallback ==
    [t |-> "object", score |-> Num(75 * Scale), sentiment_score |-> Num(Scale \div 2),
     short_review |-> Str("Product analysis completed. Please check product details for more information."),
     pros |-> Arr(<<"Available for purchase", "Listed on reputable platform", "Product information provided">>),
     cons |-> Arr(<<"Limited analysis data", "Manual review recommended", "Details may vary">>),
     category |-> Undefined, category_scores |-> Undefined, stores |-> Undefined,
     reviews_summary |-> Undefined, sources_count |-> Undefined]

Fallback == IF variant = "richer" THEN RicherFallback ELSE SimplerFallback

ParseAnalysis_throwOnFailure(content) ==
    IF ParseThrows(content) THEN Null ELSE CleanContent(content)

\* try { aiAnalysis = JSON.parse(cleaned) } catch { aiAnalysis = fallback }
ParseAnalysis(content) ==
    IF ParseThrows(content) THEN Fallback ELSE CleanContent(content)

\* --------------------------------------------------------- metadata
DefaultMeta == [title |-> Str("Product"), image |-> Null, description |-> Null]

\* a || b
Or(a, b) == IF Falsy(a) THEN b ELSE a

\* the pieces as one string
RECURSIVE Join(_)
Join(pieces) == IF pieces = <<>> THEN "" ELSE Head(pieces) \o Join(Tail(pieces))

\* .replace(/"/g, '')
StripQuotes(pieces) == SelectSeq(pieces, LAMBDA p : p # Quote)

\* html.match(...): the capture group needs one character or more;
\* match ? match[1].replace(/"/g, '') : null
ExtractTag(tag) ==
    IF tag = Null \/ tag.pieces = <<>> THEN Null
    ELSE Str(Join(StripQuotes(tag.pieces)))

ExtractMeta_ogTitleFirst(html) ==
    [title |-> Or(ExtractTag(html.ogTitle), Or(ExtractTag(html.titleTag), Str("Product"))),
     image |-> Or(ExtractTag(html.ogImage), ExtractTag(html.img)),
     description |-> Or(ExtractTag(html.ogDesc), ExtractTag(html.metaDesc))]

\* extractMeta over the fetched html, in the code's order of precedence
ExtractMeta(html) ==
    [title |-> Or(ExtractTag(html.titleTag), Or(ExtractTag(html.ogTitle), Str("Product"))),
     image |-> Or(ExtractTag(html.ogImage), ExtractTag(html.img)),
     description |-> Or(ExtractTag(html.ogDesc), ExtractTag(html.metaDesc))]

\* md.title || title, md.ogImage || null, md.description || null
ScrapedMeta(md) ==
    [title |-> Or(md.title, Str("Product")),
     image |-> Or(md.ogImage, Null),
     description |-> Or(md.description, Null)]

\* ------------------------------------------------ result and responses
NoResult == [t |-> "none"]

BuildResult_withCategory(url, meta, aiAnalysis, clock) ==
    [url |-> url,
     domain |-> Hostname(url),
     fetched_at |-> ToISOString(clock),
     title |-> meta.title, image |-> meta.image, description |-> meta.description,
     price |-> Null, currency |-> Null, rating |-> Null,
     ai_score |-> NormalizeScore(aiAnalysis.score),
     sentiment_score |-> ClampSentiment(aiAnalysis.sentiment_score),
     short_review |-> aiAnalysis.short_review,
     pros |-> SliceOrEmpty(aiAnalysis.pros, ProsCap),
     cons |-> SliceOrEmpty(aiAnalysis.cons, ConsCap),
     category |-> aiAnalysis.category,
     cached_until |-> ToISOString(clock + CacheTtlMs)]

\* const result: AnalysisResult = {...}
BuildResult(url, meta, aiAnalysis, clock) ==
    [url |-> url,
     domain |-> Hostname(url),
     fetched_at |-> ToISOString(clock),
     title |-> meta.title, image |-> meta.image, description |-> meta.description,
     price |-> Null, currency |-> Null, rating |-> Null,
     ai_score |-> NormalizeScore(aiAnalysis.score),
     sentiment_score |-> ClampSentiment(aiAnalysis.sentiment_score),
     short_review |-> aiAnalysis.short_review,
     pros |-> SliceOrEmpty(aiAnalysis.pros, ProsCap),
     cons |-> SliceOrEmpty(aiAnalysis.cons, ConsCap),
     cached_until |-> ToISOString(clock + CacheTtlMs)]

NoResponse == [status |-> 0, kind |-> "none"]
OptionsResponse == [status |-> 200, kind |-> "cors"]
ErrorResponse(status, error) == [status |-> status, kind |-> "error", error |-> error]
InternalError(message) ==
    [status |-> 500, kind |-> "error", error |-> "Internal server error: ", message |-> message]

\* x ? parseFloat(x) : dflt
ParseFloatOr(x, dflt) == IF Falsy(x) THEN dflt ELSE x

CachedResponse_placeholderTitle(cached) ==
    [status |-> 200, kind |-> "analysis", url |-> cached.url,
     meta |-> [title |-> Str("Product"), image |-> cached.image,
               description |-> cached.description,
               price |-> ParseFloatOr(cached.price, Null),
               currency |-> cached.currency,
               rating |-> ParseFloatOr(cached.rating, Null)],
     ai |-> [score |-> cached.ai_score, short_review |-> cached.short_review,
             pros |-> cached.pros, cons |-> cached.cons,
             sentiment_score |-> ParseFloatOr(cached.sentiment_score, Num(0))]]

\* the response to a cache hit
CachedResponse(cached) ==
    [status |-> 200, kind |-> "analysis", url |-> cached.url,
     meta |-> [title |-> cached.title, image |-> cached.image,
               description |-> cached.description,
               price |-> ParseFloatOr(cached.price, Null),
               currency |-> cached.currency,
               rating |-> ParseFloatOr(cached.rating, Null)],
     ai |-> [score |-> cached.ai_score, short_review |-> cached.short_review,
             pros |-> cached.pros, cons |-> cached.cons,
             sentiment_score |-> ParseFloatOr(cached.sentiment_score, Num(0))]]

BaseAi(result) ==
    [score |-> result.ai_score, short_review |-> result.short_review,
     pros |-> result.pros, cons |-> result.cons,
     sentiment_score |-> result.sentiment_score]

\* the response to a freshly computed analysis
FreshResponse(result, aiAnalysis) ==
    [status |-> 200, kind |-> "analysis", url |-> result.url,
     meta |-> [title |-> result.title, image |-> result.image,
               description |-> result.description, price |-> result.price,
               currency |-> result.currency, rating |-> result.rating],
     ai |-> IF variant = "richer"
            THEN [score |-> result.ai_score, short_review |-> result.short_review,
                  pros |-> result.pros, cons |-> result.cons,
                  sentiment_score |-> result.sentiment_score,
                  category |-> aiAnalysis.category,
                  category_scores |-> aiAnalysis.category_scores,
                  stores |-> Or(aiAnalysis.stores, Arr(<<>>)),
                  reviews_summary |-> aiAnalysis.reviews_summary,
                  sources_count |-> aiAnalysis.sources_count]
            ELSE BaseAi(result)]

\* ------------------------------------------------------------ the store
\* JSON.stringify of a number: NaN becomes null
JsonNumber(x) == IF x.t = "NaN" THEN Null ELSE x

\* the row PostgREST receives for a result
ToRow(result) ==
    [result EXCEPT !.ai_score = JsonNumber(@), !.sentiment_score = JsonNumber(@)]

\* NOT NULL and CHECK constraints of product_inspections
RowAccepted(row) ==
    /\ row.ai_score.t = "number"
    /\ row.ai_score.v % Scale = 0
    /\ row.ai_score.v >= 0 /\ row.ai_score.v <= 100 * Scale
    /\ \/ row.sentiment_score.t = "null"
       \/ /\ row.sentiment_score.t = "number"
          /\ row.sentiment_score.v >= 0 - Scale /\ row.sentiment_score.v <= Scale
    /\ row.short_review.t = "string"

\* rows of the table with this url
Matching(rows, url) == {i \in DOMAIN rows : rows[i].url = url}

\* .select('*').eq('url', url).maybeSingle(): the row, or none
MaybeSingle(rows, url) ==
    IF Cardinality(Matching(rows, url)) = 1
    THEN rows[CHOOSE i \in Matching(rows, url) : TRUE]
    ELSE NoResult

UpsertRows_insertOnly(rows, row) == Append(rows, row)

UpsertRows_keepExisting(rows, row) ==
    IF Matching(rows, row.url) = {} THEN Append(rows, row) ELSE rows

\* INSERT ... ON CONFLICT (url) DO UPDATE
UpsertRows(rows, row) ==
    IF Matching(rows, row.url) = {}
    THEN Append(rows, row)
    ELSE [i \in DOMAIN rows |-> IF rows[i].url = row.url THEN row ELSE rows[i]]

FreshTest_nonStrict(cached, clock) ==
    cached # NoResult /\ DateParse(cached.cached_until) >= clock

\* cached && new Date(cached.cached_until) > new Date()
FreshTest(cached, clock) ==
    cached # NoResult /\ DateParse(cached.cached_until) > clock

\* ------------------------------------------------------------ requests
NoBody == [kind |-> "none", url |-> Undefined]
NoPayload == [t |-> "none"]

\* an invocation before it has received a request
IdleReq ==
    [pc |-> "idle", method |-> "", body |-> NoBody, url |-> EmptyString,
     calls |-> <<>>, log |-> {}, pageStatus |-> 0, meta |-> DefaultMeta,
     cacheError |-> FALSE, aiStatus |-> 0, aiPayload |-> NoPayload,
     result |-> NoResult, insertError |-> FALSE, resp |-> NoResponse]

\* response.ok
Ok(status) == status >= 200 /\ status <= 299

Caught_unknownError(q, message) ==
    [q EXCEPT !.pc = "done", !.log = @ \cup {"Analysis error"},
              !.resp = InternalError("Unknown error")]

\* the outer catch: console.error, then 500 with the exception's message
Caught(q, message) ==
    [q EXCEPT !.pc = "done", !.log = @ \cup {"Analysis error"},
              !.resp = InternalError(message)]

Respond(q, response) == [q EXCEPT !.pc = "done", !.resp = response]

\* issue the next awaited call
Await(q, call) == [q EXCEPT !.pc = call, !.calls = Append(@, call)]

\* a deployment runs one variant; the table is empty; nothing is in flight
InitHandler ==
    /\ variant \in {"richer", "simpler"}
    /\ firecrawlKey \in BOOLEAN
    /\ (variant = "simpler" => firecrawlKey = FALSE)
    /\ store = <<>>
    /\ now = 0
    /\ req = [r \in Reqs |-> IdleReq]

Init == InitHandler /\ calc = [op |-> "none"]

\* const { url } = await req.json(); the two validation returns
Validate(q) ==
    IF q.body.kind = "unreadable"
    THEN Caught(q, "Unexpected end of JSON input")
    ELSE IF q.body.kind = "null"
    THEN Caught(q, "Cannot destructure property 'url' of null")
    ELSE IF Falsy(q.body.url) \/ q.body.url.t # "string"
    THEN Respond(q, ErrorResponse(400, "Valid product URL is required"))
    ELSE IF URLThrows(q.body.url)
    THEN Respond(q, ErrorResponse(400, "Invalid URL format"))
    ELSE Await([q EXCEPT !.url = q.body.url], "lookup")

\* Deno.serve hands a request to the handler
Start(r, method, body) ==
    /\ req[r].pc \in {"idle", "done"}
    /\ req' = [req EXCEPT ![r] =
                 IF method = "OPTIONS"
                 THEN Respond([IdleReq EXCEPT !.method = method, !.body = body],
                              OptionsResponse)
                 ELSE Validate([IdleReq EXCEPT !.method = method, !.body = body])]
    /\ UNCHANGED <<variant, firecrawlKey, store, now, calc>>

\* if (cacheError) console.error(...): the simpler variant only
LogCacheError(q, cacheError) ==
    [q EXCEPT !.cacheError = cacheError,
              !.log = IF cacheError /\ variant = "simpler"
                      THEN @ \cup {"Cache lookup error"} ELSE @]

AfterLookup_ignoreCache(q, cached, cacheError, clock) ==
    Await(LogCacheError(q, cacheError), "fetch")

\* the code between the cache lookup and the page fetch
AfterLookup(q, cached, cacheError, clock) ==
    IF FreshTest(cached, clock)
    THEN Respond(LogCacheError(q, cacheError), CachedResponse(cached))
    ELSE Await(LogCacheError(q, cacheError), "fetch")

\* the cache lookup returns: { data: cached, error: cacheError }
Lookup(r, dbOk) ==
    /\ req[r].pc = "lookup"
    /\ req' = [req EXCEPT ![r] =
                 AfterLookup(@, IF dbOk THEN MaybeSingle(store, @.url) ELSE NoResult,
                             ~dbOk, now)]
    /\ UNCHANGED <<variant, firecrawlKey, store, now, calc>>

PageOutcomes ==
    {[kind |-> "throw"]}
    \cup {[kind |-> "response", status |-> st, html |-> HtmlBare] : st \in PageStatuses \ {200}}
    \cup {[kind |-> "response", status |-> 200, html |-> h] : h \in Htmls}

TryFirecrawl_anyStatus(status) == firecrawlKey

\* if (FIRECRAWL_API_KEY && (status === 429 || status === 529 || status === 403))
TryFirecrawl(status) == firecrawlKey /\ status \in {429, 529, 403}

OriginErrorMessage_generic(status) == "Please try again or use a different product URL."

\* the classified message of the simpler variant
OriginErrorMessage(status) ==
    IF status = 429 \/ status = 529 THEN "The website is blocking automated requests."
    ELSE IF status = 403 THEN "Access to this page is restricted."
    ELSE IF status = 404 THEN "Product page not found."
    ELSE "Please try again or use a different product URL."

AfterPage_passStatus(q, out) ==
    IF out.kind = "throw" THEN Caught(q, "error sending request")
    ELSE IF ~Ok(out.status)
    THEN IF variant = "simpler"
         THEN Respond([q EXCEPT !.pageStatus = out.status,
                                !.log = @ \cup {"Failed to fetch page"}],
                      ErrorResponse(out.status, OriginErrorMessage(out.status)))
         ELSE Await([q EXCEPT !.pageStatus = out.status,
                              !.log = @ \cup {"Failed to fetch page"}],
                    IF TryFirecrawl(out.status) THEN "scrape" ELSE "model")
    ELSE Await([q EXCEPT !.pageStatus = out.status, !.meta = ExtractMeta(out.html)],
               "model")

\* the code between the page fetch and the next call
AfterPage(q, out) ==
    IF out.kind = "throw" THEN Caught(q, "error sending request")
    ELSE IF ~Ok(out.status)
    THEN IF variant = "simpler"
         THEN Respond([q EXCEPT !.pageStatus = out.status,
                                !.log = @ \cup {"Failed to fetch page"}],
                      ErrorResponse(500, OriginErrorMessage(out.status)))
         ELSE Await([q EXCEPT !.pageStatus = out.status,
                              !.log = @ \cup {"Failed to fetch page"}],
                    IF TryFirecrawl(out.status) THEN "scrape" ELSE "model")
    ELSE Await([q EXCEPT !.pageStatus = out.status, !.meta = ExtractMeta(out.html)],
               "model")

\* the page fetch returns or throws
PageFetch(r, out) ==
    /\ req[r].pc = "fetch"
    /\ req' = [req EXCEPT ![r] = AfterPage(@, out)]
    /\ UNCHANGED <<variant, firecrawlKey, store, now, calc>>

ScrapeOutcomes ==
    {[kind |-> "throw"], [kind |-> "response", ok |-> FALSE]}
    \cup {[kind |-> "response", ok |-> TRUE, md |-> md] : md \in FcMetadatas}

AfterScrape_retry(q, out) ==
    IF out.kind = "throw"
    THEN Await([q EXCEPT !.log = @ \cup {"Firecrawl failed"}], "scrape")
    ELSE IF out.ok THEN Await([q EXCEPT !.meta = ScrapedMeta(out.md)], "model")
    ELSE Await(q, "model")

\* the try/catch around the Firecrawl call
AfterScrape(q, out) ==
    IF out.kind = "throw"
    THEN Await([q EXCEPT !.log = @ \cup {"Firecrawl failed"}], "model")
    ELSE IF out.ok THEN Await([q EXCEPT !.meta = ScrapedMeta(out.md)], "model")
    ELSE Await(q, "model")

\* the fallback scrape returns or throws
Scrape(r, out) ==
    /\ req[r].pc = "scrape"
    /\ req' = [req EXCEPT ![r] = AfterScrape(@, out)]
    /\ UNCHANGED <<variant, firecrawlKey, store, now, calc>>

ModelOutcomes ==
    {[kind |-> "throw"]}
    \cup {[kind |-> "response", status |-> st, payload |-> NoPayload] : st \in AiStatuses \ {200}}
    \cup {[kind |-> "response", status |-> 200, payload |-> p] : p \in AiPayloads}

AiErrorResponse_always500(status) == ErrorResponse(500, "AI analysis failed")

AiErrorResponse_no402(status) ==
    IF status = 429
    THEN ErrorResponse(429, "AI rate limit exceeded. Please try again later.")
    ELSE ErrorResponse(500, "AI analysis failed")

\* the three returns under if (!aiResponse.ok)
AiErrorResponse(status) ==
    IF status = 429
    THEN ErrorResponse(429, "AI rate limit exceeded. Please try again later.")
    ELSE IF status = 402
    THEN ErrorResponse(402, "AI credits exhausted. Please add credits to your workspace.")
    ELSE ErrorResponse(500, "AI analysis failed")

\* parse, read the clock once, build the result, issue the upsert
AfterModelOk(q, payload, clock) ==
    IF ~payload.json THEN Caught([q EXCEPT !.aiPayload = payload], "Unexpected token")
    ELSE IF ParseAnalysis(payload.content) = Null
    THEN Caught([q EXCEPT !.aiPayload = payload],
                "Cannot read properties of null (reading 'score')")
    ELSE Await([q EXCEPT !.aiPayload = payload,
                         !.log = IF ParseThrows(payload.content)
                                 THEN @ \cup {"Failed to parse AI response"} ELSE @,
                         !.result = BuildResult(q.url, q.meta,
                                                ParseAnalysis(payload.content), clock)],
               "upsert")

\* the code between the model call and the upsert
AfterModel(q, out, clock) ==
    IF out.kind = "throw" THEN Caught(q, "error sending request")
    ELSE IF ~Ok(out.status)
    THEN Respond([q EXCEPT !.aiStatus = out.status, !.log = @ \cup {"AI API error"}],
                 AiErrorResponse(out.status))
    ELSE AfterModelOk([q EXCEPT !.aiStatus = out.status], out.payload, clock)

\* the model gateway call returns or throws
ModelCall(r, out) ==
    /\ req[r].pc = "model"
    /\ req' = [req EXCEPT ![r] = AfterModel(@, out, now)]
    /\ UNCHANGED <<variant, firecrawlKey, store, now, calc>>

\* does the store take the write
UpsertApplied(result, dbOk) == dbOk /\ RowAccepted(ToRow(result))

\* the code after the upsert: log (simpler variant only), then respond
AfterUpsert(q, insertError) ==
    Respond([q EXCEPT !.insertError = insertError,
                      !.log = IF insertError /\ variant = "simpler"
                              THEN @ \cup {"Failed to cache result"} ELSE @],
            FreshResponse(q.result, ParseAnalysis(q.aiPayload.content)))

\* the upsert reaches the store and returns { error: insertError }
Upsert(r, dbOk) ==
    /\ req[r].pc = "upsert"
    /\ store' = IF UpsertApplied(req[r].result, dbOk)
                THEN UpsertRows(store, ToRow(req[r].result))
                ELSE store
    /\ req' = [req EXCEPT ![r] = AfterUpsert(@, ~UpsertApplied(@.result, dbOk))]
    /\ UNCHANGED <<variant, firecrawlKey, now, calc>>

\* time passes
Tick ==
    /\ now < MaxTicks * TickMs
    /\ now' = now + TickMs
    /\ UNCHANGED <<variant, firecrawlKey, store, req, calc>>

Methods == {"POST", "OPTIONS"}

\* one invocation at a time, every outcome of every call
Next ==
    \/ \E m \in Methods, b \in Bodies : Start("r1", m, b)
    \/ \E dbOk \in BOOLEAN : Lookup("r1", dbOk)
    \/ \E out \in PageOutcomes : PageFetch("r1", out)
    \/ \E out \in ScrapeOutcomes : Scrape("r1", out)
    \/ \E out \in ModelOutcomes : ModelCall("r1", out)
    \/ \E dbOk \in BOOLEAN : Upsert("r1", dbOk)
    \/ Tick

Spec == Init /\ [][Next]_vars

\* the outcomes kept when two invocations interleave
RaceBodies == {Body("json", u) : u \in Urls}
RacePageOutcomes == {o \in PageOutcomes : o.kind = "response" /\ o.status = 200}
RaceModelOutcomes ==
    {o \in ModelOutcomes : /\ o.kind = "response" /\ o.status = 200 /\ o.payload.json
                           /\ o.payload.content \in {Content(TRUE, ObjWidget),
                                                     Content(FALSE, ObjOutOfRange)}}

\* two invocations interleaved at their await points
NextRace ==
    \/ \E r \in Reqs, b \in RaceBodies : req[r].pc = "idle" /\ Start(r, "POST", b)
    \/ \E r \in Reqs, dbOk \in BOOLEAN : Lookup(r, dbOk)
    \/ \E r \in Reqs, out \in RacePageOutcomes : PageFetch(r, out)
    \/ \E r \in Reqs, out \in RaceModelOutcomes : ModelCall(r, out)
    \/ \E r \in Reqs, dbOk \in BOOLEAN : Upsert(r, dbOk)
    \/ Tick

SpecRace == Init /\ [][NextRace]_vars

\* ------------------------------------------- score normalization alone
ScoreInputs == {Num(n) : n \in (0 - MaxBelowZero * Scale)..(MaxScoreIn * Scale)}

InitScore ==
    /\ InitHandler
    /\ calc \in {[op |-> "score", step |-> 0, x |-> x, y |-> NaN, yy |-> NaN] :
                 x \in ScoreInputs}

\* normalize the model's score
NormalizeOnce ==
    /\ calc.op = "score" /\ calc.step = 0
    /\ calc' = [calc EXCEPT !.step = 1, !.y = NormalizeScore(calc.x)]
    /\ UNCHANGED <<variant, firecrawlKey, store, now, req>>

\* normalize the normalized score
NormalizeAgain ==
    /\ calc.op = "score" /\ calc.step = 1
    /\ calc' = [calc EXCEPT !.step = 2, !.yy = NormalizeScore(calc.y)]
    /\ UNCHANGED <<variant, firecrawlKey, store, now, req>>

NextScore == NormalizeOnce \/ NormalizeAgain

SpecScore == InitScore /\ [][NextScore]_vars

\* ======================================================== properties
Done(r) == req[r].pc = "done"
Called(r, call) == \E i \in DOMAIN req[r].calls : req[r].calls[i] = call
TimesCalled(r, call) == Cardinality({i \in DOMAIN req[r].calls : req[r].calls[i] = call})

\* the body carries no url, a url that is not a string, or one that does not parse
UrlMissingOrInvalid(body) ==
    \/ body.kind = "null"
    \/ /\ body.kind = "json"
       /\ (body.url.t = "undefined" \/ body.url.t # "string" \/ URLThrows(body.url))

\* C1: every request whose body url is missing, not a string or unparsable
\* is answered 400 and makes no database and no network call.
C1_InvalidUrlIs400 ==
    \A r \in Reqs :
        (Done(r) /\ req[r].method = "POST" /\ UrlMissingOrInvalid(req[r].body))
        => (req[r].resp.status = 400 /\ req[r].calls = <<>>)

\* the table holds a row for url whose cached_until is later than the clock
StoredFresh(url) ==
    \E i \in DOMAIN store :
        store[i].url = url /\ DateParse(store[i].cached_until) > now

StoredRow(url) == store[CHOOSE i \in DOMAIN store : store[i].url = url]

\* the lookup of r returns in this step
LookupReturns(r) == req[r].pc = "lookup" /\ req'[r].pc # "lookup"

\* r answers 200 with the stored row reshaped and has made no other call
ServedFromCache(r) ==
    /\ req'[r].pc = "done"
    /\ req'[r].resp.status = 200
    /\ req'[r].resp.kind = "analysis"
    /\ req'[r].resp.url = StoredRow(req[r].url).url
    /\ req'[r].resp.meta.title = StoredRow(req[r].url).title
    /\ req'[r].resp.meta.image = StoredRow(req[r].url).image
    /\ req'[r].resp.meta.description = StoredRow(req[r].url).description
    /\ req'[r].resp.ai.score = StoredRow(req[r].url).ai_score
    /\ req'[r].resp.ai.short_review = StoredRow(req[r].url).short_review
    /\ req'[r].resp.ai.pros = StoredRow(req[r].url).pros
    /\ req'[r].resp.ai.cons = StoredRow(req[r].url).cons
    /\ req'[r].calls = <<"lookup">>
    /\ store' = store

\* C2 as stated: whenever the stored record of the url is fresh, the request
\* is answered from it with no page fetch, scrape, model call or upsert.
C2_FreshRecordServed ==
    [][\A r \in Reqs :
          (LookupReturns(r) /\ StoredFresh(req[r].url)) => ServedFromCache(r)]_vars

\* C2 amended: whenever the cache lookup returns without error and the stored
\* record of the url is fresh, the request is answered 200 from that record and
\* makes no page fetch, scrape, model call or upsert.
C2_FreshRecordServedWhenLookupSucceeds ==
    [][\A r \in Reqs :
          (LookupReturns(r) /\ StoredFresh(req[r].url) /\ ~req'[r].cacheError)
          => ServedFromCache(r)]_vars

C2_Witness ==
    \E r \in Reqs :
        /\ Done(r) /\ req[r].calls = <<"lookup">> /\ ~req[r].cacheError
        /\ req[r].resp.status = 200 /\ req[r].resp.kind = "analysis"
        /\ StoredFresh(req[r].url)

\* C3: a request whose record was absent or expired and whose page fetch and
\* model call succeeded has issued exactly one upsert, keyed on its url, of a
\* record whose cached_until is its fetched_at plus 24 hours.
C3_OneUpsertWithDayTtl ==
    \A r \in Reqs :
        (/\ Done(r) /\ Called(r, "fetch") /\ ~req[r].cacheError
         /\ req[r].pageStatus = 200 /\ req[r].aiStatus = 200
         /\ req[r].aiPayload # NoPayload /\ req[r].aiPayload.json)
        => /\ TimesCalled(r, "upsert") = 1
           /\ req[r].result # NoResult
           /\ req[r].result.url = req[r].url
           /\ DateParse(req[r].result.cached_until)
                = DateParse(req[r].result.fetched_at) + 24 * 60 * 60 * 1000

\* the gateway's JSON payload has no content, or a content that is not JSON
ContentUnusable(payload) ==
    /\ payload # NoPayload
    /\ payload.json
    /\ (payload.content.t # "string" \/ payload.content.text = Prose)

C4_Pros ==
    IF variant = "richer"
    THEN <<"Available", "Listed", "Accessible", "Online", "Verified", "Reputable">>
    ELSE <<"Available for purchase", "Listed on reputable platform",
           "Product information provided">>

C4_Cons ==
    IF variant = "richer"
    THEN <<"Limited data", "Manual review recommended">>
    ELSE <<"Limited analysis data", "Manual review recommended", "Details may vary">>

\* C4: when the gateway answers 200 and the content is missing or is not
\* parseable JSON, the request goes on to the upsert with the variant's fixed
\* fallback (score 75, sentiment 0.5, fixed pros and cons) and answers 200
\* with it.
C4_FallbackOnUnparseable ==
    \A r \in Reqs :
        (req[r].aiStatus = 200 /\ ContentUnusable(req[r].aiPayload))
        => /\ req[r].pc \in {"upsert", "done"}
           /\ TimesCalled(r, "upsert") = 1
           /\ Done(r) =>
                /\ req[r].resp.status = 200
                /\ req[r].resp.kind = "analysis"
                /\ req[r].resp.ai.score = Num(75 * Scale)
                /\ req[r].resp.ai.sentiment_score = Num(Scale \div 2)
                /\ req[r].resp.ai.pros = C4_Pros
                /\ req[r].resp.ai.cons = C4_Cons

C4_Witness ==
    \E r \in Reqs :
        /\ Done(r) /\ req[r].aiStatus = 200 /\ ContentUnusable(req[r].aiPayload)
        /\ req[r].aiPayload.content = Content(FALSE, Prose)
        /\ req[r].resp.status = 200

\* C5: when the gateway answers 429 the request is answered 429 with the
\* rate-limit message, issues no upsert, and the step leaves the table as it was.
C5_RateLimited ==
    /\ [](\A r \in Reqs :
            req[r].aiStatus = 429
            => /\ Done(r)
               /\ req[r].resp.status = 429
               /\ req[r].resp.error = "AI rate limit exceeded. Please try again later."
               /\ ~Called(r, "upsert"))
    /\ [][\A r \in Reqs :
            (req[r].pc = "model" /\ req'[r].aiStatus = 429) => store' = store]_vars

C5_Witness ==
    \E r \in Reqs : Done(r) /\ req[r].aiStatus = 429 /\ req[r].resp.status = 429

\* C6: a non-success gateway status alone fixes the response status (402 to
\* 402, 429 to 429, anything else to 500) and the request ends with no upsert.
C6_GatewayStatusMapping ==
    \A r \in Reqs :
        (req[r].aiStatus # 0 /\ ~Ok(req[r].aiStatus))
        => /\ Done(r)
           /\ req[r].resp.status =
                (IF req[r].aiStatus \in {402, 429} THEN req[r].aiStatus ELSE 500)
           /\ ~Called(r, "upsert")

C6_Witness ==
    \E r \in Reqs : Done(r) /\ req[r].aiStatus = 402 /\ req[r].resp.status = 402

\* C7: when the upsert fails the request is still answered 200 with the
\* analysis it computed, and the failure is logged.
C7_UpsertFailureLogged ==
    \A r \in Reqs :
        (Done(r) /\ Called(r, "upsert") /\ req[r].insertError)
        => /\ req[r].resp.status = 200
           /\ req[r].resp.kind = "analysis"
           /\ req[r].resp.ai.score = req[r].result.ai_score
           /\ req[r].resp.ai.pros = req[r].result.pros
           /\ "Failed to cache result" \in req[r].log

\* the upsert of r returns in this step and the store took the write
UpsertWrites(r) ==
    req[r].pc = "upsert" /\ req'[r].pc = "done" /\ ~req'[r].insertError

\* C8: no two rows of the table have the same url, and an upsert for a url
\* that has a row replaces that row's contents and adds none.
C8_UrlIsUnique ==
    /\ [](\A i, j \in DOMAIN store : store[i].url = store[j].url => i = j)
    /\ [][\A r \in Reqs :
            (UpsertWrites(r) /\ Matching(store, req[r].url) # {})
            => /\ Len(store') = Len(store)
               /\ \A i \in Matching(store, req[r].url) :
                     store'[i] = ToRow(req[r].result)
               /\ \A i \in DOMAIN store \ Matching(store, req[r].url) :
                     store'[i] = store[i]]_vars

C8_Witness ==
    /\ Len(store) = 1
    /\ \A r \in Reqs :
          /\ Done(r) /\ Called(r, "upsert") /\ ~req[r].insertError
          /\ req[r].url = WidgetUrl

\* C9: two requests for one url can both miss the cache, both fetch, both
\* call the model and both upsert; every upsert the store takes leaves
\* exactly one row for the url, the one just written (the later write wins),
\* only upserts change the table, and each request answers with its own result.
C9_LastWriteWins ==
    [][/\ \A r \in Reqs :
            UpsertWrites(r)
            => /\ Cardinality(Matching(store', req[r].url)) = 1
               /\ MaybeSingle(store', req[r].url) = ToRow(req[r].result)
               /\ req'[r].resp.status = 200
               /\ req'[r].resp.url = req[r].result.url
               /\ req'[r].resp.meta.title = req[r].result.title
               /\ req'[r].resp.ai.score = req[r].result.ai_score
               /\ req'[r].resp.ai.short_review = req[r].result.short_review
               /\ req'[r].resp.ai.pros = req[r].result.pros
               /\ req'[r].resp.ai.cons = req[r].result.cons
       /\ store' # store => \E r \in Reqs : UpsertWrites(r)]_vars

C9_Witness ==
    /\ \A r \in Reqs :
          /\ Done(r) /\ req[r].url = WidgetUrl /\ ~req[r].insertError
          /\ req[r].calls = <<"lookup", "fetch", "model", "upsert">>
    /\ req["r1"].result # req["r2"].result
    /\ req["r1"].resp.ai.score # req["r2"].resp.ai.score
    /\ Len(store) = 1
    /\ store[1] = ToRow(req["r2"].result)

\* C10: the normalized score is an integer in 0..100 (100 above 100, 0 below
\* 0, else the nearest integer) and normalizing it again changes nothing.
C10_ScoreNormalization ==
    (calc.op = "score" /\ calc.step >= 1)
    => /\ calc.y.t = "number"
       /\ calc.y.v % Scale = 0
       /\ calc.y.v >= 0 /\ calc.y.v <= 100 * Scale
       /\ calc.x.v > 100 * Scale => calc.y.v = 100 * Scale
       /\ calc.x.v < 0 => calc.y.v = 0
       /\ (calc.x.v >= 0 /\ calc.x.v <= 100 * Scale)
            => (2 * (calc.y.v - calc.x.v) <= Scale /\ 2 * (calc.x.v - calc.y.v) <= Scale)
       /\ calc.step = 2 => calc.yy = calc.y

C10_Witness ==
    /\ calc.op = "score" /\ calc.step = 2
    /\ calc.x = Num(150 * Scale) /\ calc.y = Num(100 * Scale) /\ calc.yy = calc.y

\* --------------------------------------------- sentiment clamp alone
SentimentInputs == {Num(n) : n \in (0 - MaxSentimentIn * Scale)..(MaxSentimentIn * Scale)}

InitSentiment ==
    /\ InitHandler
    /\ calc \in {[op |-> "sentiment", step |-> 0, x |-> x, y |-> NaN] :
                 x \in SentimentInputs}

\* clamp the model's sentiment_score
ClampOnce ==
    /\ calc.op = "sentiment" /\ calc.step = 0
    /\ calc' = [calc EXCEPT !.step = 1, !.y = ClampSentiment(calc.x)]
    /\ UNCHANGED <<variant, firecrawlKey, store, now, req>>

NextSentiment == ClampOnce

SpecSentiment == InitSentiment /\ [][NextSentiment]_vars

\* C11: the clamped sentiment is 1 above 1, -1 below -1, and the input
\* itself, unrounded, in between.
C11_SentimentClamp ==
    (calc.op = "sentiment" /\ calc.step = 1)
    => /\ calc.y.t = "number"
       /\ calc.x.v > Scale => calc.y.v = Scale
       /\ calc.x.v < 0 - Scale => calc.y.v = 0 - Scale
       /\ (calc.x.v >= 0 - Scale /\ calc.x.v <= Scale) => calc.y.v = calc.x.v

C11_Witness ==
    /\ calc.op = "sentiment" /\ calc.step = 1
    /\ calc.x = Num((3 * Scale) \div 10) /\ calc.y = calc.x /\ calc.x.v # 0

\* ------------------------------------------- pros / cons slicing alone
ListInputs ==
    {Arr(a) : a \in UNION {[1..n -> {"a", "b"}] : n \in 0..MaxItems}}
    \cup {Undefined, Null, NotArray, Str("good, cheap")}

InitLists ==
    /\ InitHandler
    /\ calc \in {[op |-> "lists", step |-> 0, x |-> x, pros |-> <<>>, cons |-> <<>>] :
                 x \in ListInputs}

\* normalize the model's pros and cons
NormalizeLists ==
    /\ calc.op = "lists" /\ calc.step = 0
    /\ calc' = [calc EXCEPT !.step = 1, !.pros = SliceOrEmpty(calc.x, ProsCap),
                                        !.cons = SliceOrEmpty(calc.x, ConsCap)]
    /\ UNCHANGED <<variant, firecrawlKey, store, now, req>>

NextLists == NormalizeLists

SpecLists == InitLists /\ [][NextLists]_vars

\* out is the first cap elements of the array in, in order
IsPrefixOfLength(out, in, cap) ==
    /\ Len(out) = (IF Len(in) <= cap THEN Len(in) ELSE cap)
    /\ \A i \in 1..Len(out) : out[i] = in[i]

\* C12: normalized pros and cons are the first k elements of the model's
\* array in order (richer 6 and 2, simpler 3 and 3), the whole array when it
\* is no longer than k, and the empty list when the value is not an array.
C12_ProsConsCapped ==
    (calc.op = "lists" /\ calc.step = 1)
    => IF calc.x.t = "array"
       THEN /\ IsPrefixOfLength(calc.pros, calc.x.a, IF variant = "richer" THEN 6 ELSE 3)
            /\ IsPrefixOfLength(calc.cons, calc.x.a, IF variant = "richer" THEN 2 ELSE 3)
       ELSE calc.pros = <<>> /\ calc.cons = <<>>

C12_Witness ==
    /\ calc.op = "lists" /\ calc.step = 1 /\ variant = "richer"
    /\ calc.x = Arr(<<"a", "b", "b", "a", "b", "a", "a">>)
    /\ calc.pros = <<"a", "b", "b", "a", "b", "a">>
    /\ calc.cons = <<"a", "b">>

\* x is an integer between 0 and 100
IsScore(x) == x.t = "number" /\ x.v % Scale = 0 /\ x.v >= 0 /\ x.v <= 100 * Scale
\* x is a number between -1 and 1
IsSentiment(x) == x.t = "number" /\ x.v >= 0 - Scale /\ x.v <= Scale

\* C13: every record submitted to the store and every 200 response for a
\* fresh analysis has an integer score in 0..100 and a sentiment in [-1, 1],
\* whatever parseable JSON the model returned.
C13_ScoreAndSentimentInRange ==
    \A r \in Reqs :
        Called(r, "upsert")
        => /\ IsScore(req[r].result.ai_score)
           /\ IsSentiment(req[r].result.sentiment_score)
           /\ Done(r) => /\ req[r].resp.status = 200
                         /\ IsScore(req[r].resp.ai.score)
                         /\ IsSentiment(req[r].resp.ai.sentiment_score)

\* the page fetch of r returned a non-success status
OriginFailed(r) == req[r].pageStatus \in PageStatuses \ {200}

\* the text the claim assigns to each origin status
ClassifiedAs(status, error) ==
    /\ status \in {429, 529} => error = "The website is blocking automated requests."
    /\ status = 403 => error = "Access to this page is restricted."
    /\ status = 404 => error = "Product page not found."
    /\ status \notin {429, 529, 403, 404}
       => error = "Please try again or use a different product URL."

OriginFailureIs500(r) ==
    /\ req[r].resp.status = 500
    /\ req[r].resp.kind = "error"
    /\ ClassifiedAs(req[r].pageStatus, req[r].resp.error)

\* C14 as stated: whenever the page fetch returns a non-success status and no
\* fallback scrape recovers the metadata, the response is 500 with a message
\* classified by the origin status.
C14_OriginFailureIs500 ==
    \A r \in Reqs :
        (Done(r) /\ OriginFailed(r) /\ req[r].meta = DefaultMeta)
        => OriginFailureIs500(r)

\* C14 amended: in the simpler variant, whenever the page fetch returns a
\* non-success status the response is 500 with a message classified by the
\* origin status, and no further call is made.
C14_OriginFailureIs500InSimpler ==
    \A r \in Reqs :
        (variant = "simpler" /\ OriginFailed(r))
        => /\ Done(r)
           /\ OriginFailureIs500(r)
           /\ ~Called(r, "scrape") /\ ~Called(r, "model") /\ ~Called(r, "upsert")

C14_Witness ==
    /\ variant = "simpler"
    /\ Done("r1")
    /\ req["r1"].pageStatus = 404
    /\ req["r1"].resp = ErrorResponse(500, "Product page not found.")

\* C15: when the origin page answers the page fetch with 429, the handler's
\* response has status 429, as it has when the model gateway is rate-limited.
C15_OriginRateLimitIs429 ==
    \A r \in Reqs :
        (Done(r) /\ req[r].pageStatus = 429) => req[r].resp.status = 429

\* the exceptions that leave the try body of r, each with its message
BodyUnreadable(r) == req[r].method = "POST" /\ req[r].body.kind = "unreadable"
BodyNotDestructurable(r) == req[r].method = "POST" /\ req[r].body.kind = "null"
PageFetchThrew(r) ==
    Called(r, "fetch") /\ req[r].pc # "fetch" /\ req[r].pageStatus = 0
ModelCallThrew(r) ==
    Called(r, "model") /\ req[r].pc # "model" /\ req[r].aiStatus = 0
GatewayBodyUnreadable(r) ==
    req[r].aiPayload # NoPayload /\ ~req[r].aiPayload.json
NormalizationThrew(r) ==
    /\ req[r].aiPayload # NoPayload /\ req[r].aiPayload.json
    /\ ParseAnalysis(req[r].aiPayload.content) = Null

AnsweredWith500(r, message) ==
    /\ Done(r)
    /\ req[r].resp.status = 500
    /\ req[r].resp.kind = "error"
    /\ req[r].resp.error = "Internal server error: "
    /\ req[r].resp.message = message

\* C16: every exception that leaves the try body after the OPTIONS check (an
\* unreadable or null request body, a page fetch or model call that throws, a
\* gateway body that is not JSON, a normalization that throws) ends the request
\* with status 500 and the exception's message in the error text; every
\* finished request has a response.
C16_ExceptionsAnswered500 ==
    \A r \in Reqs :
        /\ BodyUnreadable(r) => AnsweredWith500(r, "Unexpected end of JSON input")
        /\ BodyNotDestructurable(r)
           => AnsweredWith500(r, "Cannot destructure property 'url' of null")
        /\ PageFetchThrew(r) => AnsweredWith500(r, "error sending request")
        /\ ModelCallThrew(r) => AnsweredWith500(r, "error sending request")
        /\ GatewayBodyUnreadable(r) => AnsweredWith500(r, "Unexpected token")
        /\ NormalizationThrew(r)
           => AnsweredWith500(r, "Cannot read properties of null (reading 'score')")
        /\ Done(r) => req[r].resp # NoResponse

C16_Witness ==
    /\ ModelCallThrew("r1")
    /\ req["r1"].pageStatus = 200
    /\ req["r1"].calls = <<"lookup", "fetch", "model">>
    /\ req["r1"].resp = InternalError("error sending request")

\* r goes on to the page fetch and answers nothing yet
ProceedsToFetch(r) ==
    /\ req'[r].pc = "fetch"
    /\ req'[r].calls = <<"lookup", "fetch">>
    /\ req'[r].resp = NoResponse
    /\ store' = store

\* C17: when the lookup returns, the stored record is served if and only if
\* the lookup succeeded, a record of the url exists and now is strictly before
\* its cached_until; otherwise (now equal to or after cached_until, no record,
\* lookup error) nothing stored is returned and the page fetch is issued.
C17_ServedIffStrictlyFresh ==
    [][\A r \in Reqs :
          LookupReturns(r)
          => IF ~req'[r].cacheError /\ StoredFresh(req[r].url)
             THEN ServedFromCache(r)
             ELSE ProceedsToFetch(r)]_vars

\* a record exists whose cached_until equals now, and the request fetches
C17_Witness ==
    /\ req["r1"].pc = "fetch"
    /\ ~req["r1"].cacheError
    /\ \E i \in DOMAIN store :
           /\ store[i].url = req["r1"].url
           /\ DateParse(store[i].cached_until) = now

\* the scrape of r returns in this step without metadata: it threw or was not ok
ScrapeFails(r) ==
    \E out \in ScrapeOutcomes :
        /\ out.kind = "throw" \/ ~out.ok
        /\ Scrape(r, out)

\* r issues the model call in this step with the placeholder metadata
ContinuesWithPlaceholder(r) ==
    /\ req'[r].meta = [title |-> Str("Product"), image |-> Null, description |-> Null]
    /\ req'[r].pc = "model"
    /\ req'[r].calls = Append(req[r].calls, "model")
    /\ req'[r].resp = NoResponse

\* C18: in the richer variant the fallback scrape is attempted only with a
\* credential configured and an origin status of 403, 429 or 529; when it is
\* not attempted, returns non-success or throws, the metadata stays the
\* placeholder title with null image and description, and the request
\* continues to the model call.
C18_FallbackScrapeGuard ==
    /\ [](\A r \in Reqs :
            variant = "richer"
            => /\ Called(r, "scrape")
                  => firecrawlKey /\ req[r].pageStatus \in {403, 429, 529}
               /\ (OriginFailed(r) /\ ~Called(r, "scrape"))
                  => /\ req[r].meta.title = Str("Product")
                     /\ req[r].meta.image = Null
                     /\ req[r].meta.description = Null
                     /\ Called(r, "model"))
    /\ [][\A r \in Reqs :
            (variant = "richer" /\ ScrapeFails(r)) => ContinuesWithPlaceholder(r)]_vars

C18_Witness ==
    /\ variant = "richer" /\ firecrawlKey
    /\ req["r1"].pageStatus = 429
    /\ req["r1"].calls = <<"lookup", "fetch", "scrape", "model">>
    /\ "Firecrawl failed" \in req["r1"].log
    /\ req["r1"].meta = DefaultMeta
    /\ req["r1"].pc = "model"

\* ---------------------------------------------- extractMeta on its own
\* the <title> texts: no tag, an empty tag, a lone quote, a text with a
\* quote in it, a plain text
TitleTags ==
    {Null, Raw(<<>>), Raw(<<Quote>>), Raw(<<"27", Quote, " Monitor">>), Raw(<<"Widget">>)}

MetaInputs ==
    {Html(t, ot, oi, im, od, md) :
        t \in TitleTags,
        ot \in {Null, Raw(<<"OG Widget">>)},
        oi \in {Null, Raw(<<"og.png">>)},
        im \in {Null, Raw(<<"first.png">>)},
        od \in {Null, Raw(<<"OG text">>)},
        md \in {Null, Raw(<<"Meta text">>)}}

InitMeta ==
    /\ InitHandler
    /\ calc \in {[op |-> "meta", step |-> 0, html |-> h, out |-> DefaultMeta] :
                    h \in MetaInputs}

\* the success branch of the page fetch applied to one page
ExtractOnce ==
    /\ calc.op = "meta" /\ calc.step = 0
    /\ calc' = [calc EXCEPT !.step = 1, !.out = ExtractMeta(calc.html)]
    /\ UNCHANGED <<variant, firecrawlKey, store, now, req>>

NextMeta == ExtractOnce
SpecMeta == InitMeta /\ [][NextMeta]_vars

\* the tag is in the page with some text; that text as a string
Present(tag) == tag # Null /\ tag.pieces # <<>>
Text(tag) == Str(Join(tag.pieces))
\* the text without its double quotes, and whether anything is left of it
Unquoted(tag) == Str(Join(SelectSeq(tag.pieces, LAMBDA p : p # "\"")))
HasText(tag) == Present(tag) /\ Unquoted(tag).s # ""

ImageAndDescriptionByPrecedence ==
    /\ calc.out.image =
          IF Present(calc.html.ogImage) THEN Text(calc.html.ogImage)
          ELSE IF Present(calc.html.img) THEN Text(calc.html.img)
          ELSE Null
    /\ calc.out.description =
          IF Present(calc.html.ogDesc) THEN Text(calc.html.ogDesc)
          ELSE IF Present(calc.html.metaDesc) THEN Text(calc.html.metaDesc)
          ELSE Null

\* C19 as stated: for every combination of tags the title is the <title>
\* text if present, else the og:title content, else "Product"; the image is
\* og:image, else the first <img src>, else null; the description is
\* og:description, else name="description", else null.
C19_MetaPrecedence ==
    (calc.op = "meta" /\ calc.step = 1)
    => /\ calc.out.title =
             IF Present(calc.html.titleTag) THEN Text(calc.html.titleTag)
             ELSE IF Present(calc.html.ogTitle) THEN Text(calc.html.ogTitle)
             ELSE Str("Product")
       /\ ImageAndDescriptionByPrecedence

\* C19 amended: the title is the <title> text with its double quotes removed
\* if anything is left of it, else the og:title content, else "Product";
\* image and description as stated.
C19_MetaPrecedenceQuotesRemoved ==
    (calc.op = "meta" /\ calc.step = 1)
    => /\ calc.out.title =
             IF HasText(calc.html.titleTag) THEN Unquoted(calc.html.titleTag)
             ELSE IF Present(calc.html.ogTitle) THEN Text(calc.html.ogTitle)
             ELSE Str("Product")
       /\ ImageAndDescriptionByPrecedence

C19_Witness ==
    /\ calc.op = "meta" /\ calc.step = 1
    /\ calc.html.titleTag = Raw(<<"27", Quote, " Monitor">>)
    /\ calc.html.ogTitle = Raw(<<"OG Widget">>)
    /\ calc.html.ogImage = Null /\ calc.html.img = Raw(<<"first.png">>)
    /\ calc.out.title = Str("27 Monitor")
    /\ calc.out.image = Str("first.png")

\* the place of each external call in the handler's sequence
Rank(call) ==
    CASE call = "lookup" -> 1
      [] call = "fetch" -> 2
      [] call = "scrape" -> 3
      [] call = "model" -> 4
      [] call = "upsert" -> 5

\* each call at most once, in the order lookup, fetch, scrape, model, upsert
InOrderOnce(calls) ==
    \A i, j \in DOMAIN calls : i < j => Rank(calls[i]) < Rank(calls[j])

\* C20: within one request every external call is issued at most once and in
\* the order lookup, page fetch, scrape, model call, upsert; the upsert is
\* issued only after a model call that succeeded, the model call only after a
\* lookup that found no fresh record, and a request that has been answered
\* issues nothing more.
C20_SingleAttemptInOrder ==
    /\ [](\A r \in Reqs :
            /\ InOrderOnce(req[r].calls)
            /\ Called(r, "upsert")
               => /\ Called(r, "model")
                  /\ req[r].aiStatus = 200
                  /\ req[r].aiPayload # NoPayload
            /\ Called(r, "model") => Called(r, "lookup") /\ Called(r, "fetch"))
    /\ [][\A r \in Reqs :
            /\ (LookupReturns(r) /\ ~req'[r].cacheError /\ StoredFresh(req[r].url))
               => req'[r].pc = "done" /\ req'[r].calls = <<"lookup">>
            /\ (Done(r) /\ req'[r] # req[r])
               => req'[r].calls \in {<<>>, <<"lookup">>}]_vars

C20_Witness ==
    /\ Done("r1")
    /\ req["r1"].calls = <<"lookup", "fetch", "scrape", "model", "upsert">>
    /\ "Firecrawl failed" \in req["r1"].log
    /\ req["r1"].resp.status = 200

\* ------------------------------------------------------- termination
\* the pending call of the invocation returns or throws
CallReturns ==
    \/ \E dbOk \in BOOLEAN : Lookup("r1", dbOk)
    \/ \E out \in PageOutcomes : PageFetch("r1", out)
    \/ \E out \in ScrapeOutcomes : Scrape("r1", out)
    \/ \E out \in ModelOutcomes : ModelCall("r1", out)
    \/ \E dbOk \in BOOLEAN : Upsert("r1", dbOk)

\* every external call eventually returns or throws
SpecLive == Init /\ [][Next]_vars /\ WF_vars(CallReturns)

InFlight(r) == req[r].pc \in {"lookup", "fetch", "scrape", "model", "upsert"}

\* C21: every invocation ends with exactly one response when each external
\* call eventually returns or throws; the status of the response is one of
\* 200, 400, 402, 429, 500; an OPTIONS request is answered with the CORS
\* headers and makes no database or network call.
C21_OneResponse ==
    /\ [](\A r \in Reqs :
            /\ Done(r) => /\ req[r].resp # NoResponse
                          /\ req[r].resp.status \in {200, 400, 402, 429, 500}
            /\ InFlight(r) => req[r].resp = NoResponse
            /\ req[r].method = "OPTIONS"
               => /\ Done(r)
                  /\ req[r].resp = [status |-> 200, kind |-> "cors"]
                  /\ req[r].calls = <<>>)
    /\ [][\A r \in Reqs :
            (InFlight(r) /\ req'[r].resp # req[r].resp) => req'[r].pc = "done"]_vars
    /\ \A r \in Reqs : InFlight(r) ~> Done(r)

C21_Witness ==
    /\ req["r1"].method = "OPTIONS"
    /\ Done("r1")
    /\ req["r1"].resp = OptionsResponse
    /\ req["r1"].calls = <<>>
    /\ store # <<>>

\* w has completed with a successful upsert, its record is still the one
\* stored for its url, and now is before that record's cached_until
WroteRecordStillFresh(w) ==
    /\ Done(w) /\ Called(w, "upsert") /\ ~req[w].insertError
    /\ MaybeSingle(store, req[w].url) = ToRow(req[w].result)
    /\ StoredFresh(req[w].url)

\* r is answered in this step with what w was answered, and calls no model
AnsweredAs(r, w) ==
    /\ req'[r].pc = "done"
    /\ req'[r].resp.status = 200
    /\ req'[r].resp.kind = "analysis"
    /\ req'[r].resp.url = req[w].resp.url
    /\ req'[r].resp.meta.title = req[w].resp.meta.title
    /\ req'[r].resp.meta.image = req[w].resp.meta.image
    /\ req'[r].resp.meta.description = req[w].resp.meta.description
    /\ req'[r].resp.ai.score = req[w].resp.ai.score
    /\ req'[r].resp.ai.short_review = req[w].resp.ai.short_review
    /\ req'[r].resp.ai.pros = req[w].resp.ai.pros
    /\ req'[r].resp.ai.cons = req[w].resp.ai.cons
    /\ req'[r].resp.meta.price = Null
    /\ req'[r].resp.meta.currency = Null
    /\ req'[r].resp.meta.rating = Null
    /\ req'[r].calls = <<"lookup">>

\* C22 as stated: once a request for u has completed with a successful
\* upsert, a request for u whose lookup returns before the record's
\* cached_until, with no other write to u in between, is answered with the
\* writer's url, title, image, description, score, short_review, pros and
\* cons, with price, currency and rating null, and makes no model call.
C22_CacheRoundTrip ==
    [][\A w, r \in Reqs :
          (/\ w # r /\ req[r].url = req[w].url
           /\ WroteRecordStillFresh(w) /\ LookupReturns(r))
          => AnsweredAs(r, w)]_vars

\* C22 amended: the same, for a later request whose cache lookup returns
\* without error.
C22_CacheRoundTripWhenLookupSucceeds ==
    [][\A w, r \in Reqs :
          (/\ w # r /\ req[r].url = req[w].url
           /\ WroteRecordStillFresh(w) /\ LookupReturns(r)
           /\ ~req'[r].cacheError)
          => AnsweredAs(r, w)]_vars

C22_Witness ==
    /\ req["r1"].calls = <<"lookup", "fetch", "model", "upsert">>
    /\ Done("r1") /\ ~req["r1"].insertError
    /\ req["r2"].calls = <<"lookup">>
    /\ Done("r2") /\ ~req["r2"].cacheError
    /\ req["r2"].url = req["r1"].url
    /\ req["r2"].resp.meta.title = Str("Widget")
    /\ req["r2"].resp.meta.title = req["r1"].resp.meta.title
    /\ req["r2"].resp.ai.score = req["r1"].resp.ai.score
    /\ req["r2"].resp.ai.pros = req["r1"].resp.ai.pros
    /\ req["r2"].resp.meta.price = Null
    /\ now > 0

ExtendedFields ==
    {"category", "category_scores", "stores", "reviews_summary", "sources_count"}
BaseFields == {"score", "short_review", "pros", "cons", "sentiment_score"}

\* r was answered from the cache
CacheHit(r) ==
    Done(r) /\ req[r].resp.kind = "analysis" /\ req[r].calls = <<"lookup">>

\* r was answered with the analysis it computed
Computed(r) ==
    Done(r) /\ req[r].resp.kind = "analysis" /\ Called(r, "upsert")

\* C23: in the richer variant the extended fields are in the response of the
\* request that computed the analysis and nowhere else: no record submitted
\* to or held by the store has them, and the ai object of every cache-hit
\* response has exactly score, short_review, pros, cons and sentiment_score.
C23_ExtendedFieldsNotCached ==
    variant = "richer"
    => /\ \A i \in DOMAIN store : DOMAIN store[i] \cap ExtendedFields = {}
       /\ \A r \in Reqs :
             /\ req[r].result # NoResult
                => DOMAIN req[r].result \cap ExtendedFields = {}
             /\ CacheHit(r) => DOMAIN req[r].resp.ai = BaseFields
             /\ Computed(r)
                => /\ req[r].resp.ai.category
                         = ParseAnalysis(req[r].aiPayload.content).category
                   /\ req[r].resp.ai.reviews_summary
                         = ParseAnalysis(req[r].aiPayload.content).reviews_summary

C23_Witness ==
    /\ variant = "richer"
    /\ CacheHit("r1")
    /\ DOMAIN req["r1"].resp.ai = BaseFields
    /\ \E i \in DOMAIN store :
          /\ store[i].url = req["r1"].url
          /\ store[i].title = req["r1"].resp.meta.title
          /\ DOMAIN store[i] \cap ExtendedFields = {}

\* ------------------------------------------- the ProductAnalyzer component
\* calc holds the component: its url, loading and result state (result is the
\* number of the analysis whose data is displayed, 0 for null), the last
\* toast, how many analyses were started, and where each of them stands
BlankUrl == UrlString("  ", "", "")
UiUrls == {EmptyString, BlankUrl, RelativeRef, WidgetUrl}

\* !url.trim()
TrimmedEmpty(u) == u.s \in {"", "  "}

InitUi ==
    /\ InitHandler
    /\ calc = [op |-> "ui", url |-> EmptyString, loading |-> FALSE, result |-> 0,
               toast |-> "", started |-> 0,
               phase |-> [i \in 1..MaxAnalyses |-> "none"]]

\* the Input is disabled while loading in the simpler variant only; the
\* Button is disabled while loading in both
InputDisabled == variant = "simpler" /\ calc.loading
ButtonDisabled == calc.loading

\* onChange={(e) => setUrl(e.target.value)}
SetUrl(u) ==
    /\ calc.op = "ui" /\ ~InputDisabled
    /\ calc' = [calc EXCEPT !.url = u]
    /\ UNCHANGED <<variant, firecrawlKey, store, now, req>>

\* handleAnalyze up to its first await
HandleAnalyze(c) ==
    IF TrimmedEmpty(c.url)
    THEN [c EXCEPT !.toast = "Please enter a product URL"]
    ELSE IF variant = "simpler" /\ URLThrows(c.url)
    THEN [c EXCEPT !.toast = "Please enter a valid URL"]
    ELSE [c EXCEPT !.loading = TRUE, !.result = 0, !.started = @ + 1,
                   !.phase[c.started + 1] = "invoke"]

\* onClick={handleAnalyze} of the Button
ClickButton ==
    /\ calc.op = "ui" /\ ~ButtonDisabled
    /\ calc.started < MaxAnalyses
    /\ calc' = HandleAnalyze(calc)
    /\ UNCHANGED <<variant, firecrawlKey, store, now, req>>

\* onKeyPress={(e) => e.key === "Enter" && handleAnalyze()} of the Input
PressEnter ==
    /\ calc.op = "ui" /\ ~InputDisabled
    /\ calc.started < MaxAnalyses
    /\ calc' = HandleAnalyze(calc)
    /\ UNCHANGED <<variant, firecrawlKey, store, now, req>>

\* what the awaited invocation hands back
InvokeOutcomes == {"throw", "error", "no data", "data"}

\* the finally block
Finally(c, i) == [c EXCEPT !.loading = FALSE, !.phase[i] = "done"]

\* the richer variant after supabase.functions.invoke
AfterInvoke(c, i, out) ==
    IF out = "throw"
    THEN Finally([c EXCEPT !.toast = "An unexpected error occurred"], i)
    ELSE IF out = "error"
    THEN Finally([c EXCEPT !.toast = "Failed to analyze product"], i)
    ELSE IF out = "no data"
    THEN Finally([c EXCEPT !.toast = "No analysis data received. Please try again."], i)
    ELSE Finally([c EXCEPT !.result = i, !.toast = "Product analyzed successfully!"], i)

\* the simpler variant after fetch: catch, or read the body of the response
AfterFetch(c, i, out) ==
    IF out = "throw"
    THEN Finally([c EXCEPT !.toast = "Failed to analyze product. Please try again."], i)
    ELSE IF out = "error" THEN [c EXCEPT !.phase[i] = "error body"]
    ELSE [c EXCEPT !.phase[i] = "body"]

\* analysis i: the awaited invocation returns or throws
InvokeReturns(i, out) ==
    /\ calc.op = "ui" /\ calc.phase[i] = "invoke"
    /\ calc' = IF variant = "richer" THEN AfterInvoke(calc, i, out)
               ELSE AfterFetch(calc, i, out)
    /\ UNCHANGED <<variant, firecrawlKey, store, now, req>>

\* the simpler variant after response.json()
AfterBody(c, i, parsed) ==
    IF c.phase[i] = "error body"
    THEN Finally([c EXCEPT !.toast = "Failed to analyze product"], i)
    ELSE IF parsed
    THEN Finally([c EXCEPT !.result = i, !.toast = "Analysis complete!"], i)
    ELSE Finally([c EXCEPT !.toast = "Failed to analyze product. Please try again."], i)

\* analysis i: response.json() returns or throws
BodyReturns(i, parsed) ==
    /\ calc.op = "ui" /\ calc.phase[i] \in {"body", "error body"}
    /\ calc' = AfterBody(calc, i, parsed)
    /\ UNCHANGED <<variant, firecrawlKey, store, now, req>>

NextUi ==
    \/ \E u \in UiUrls : SetUrl(u)
    \/ ClickButton
    \/ PressEnter
    \/ \E i \in 1..MaxAnalyses, out \in InvokeOutcomes : InvokeReturns(i, out)
    \/ \E i \in 1..MaxAnalyses, parsed \in BOOLEAN : BodyReturns(i, parsed)

SpecUi == InitUi /\ [][NextUi]_vars

\* the analyses whose request has not finished
UiInFlight == {i \in 1..MaxAnalyses : calc.phase[i] \in {"invoke", "body", "error body"}}

\* C24: in both variants of the component, whatever is clicked and typed, at
\* most one analyze request is in flight, loading is true exactly while one
\* is in flight, and the displayed result is null or that of the most
\* recently started request.
C24_OneAnalysisAtATime ==
    calc.op = "ui"
    => /\ Cardinality(UiInFlight) <= 1
       /\ calc.loading <=> UiInFlight # {}
       /\ calc.result \in {0, calc.started}
====
